---- MODULE Spec2Model ----
(***************************************************************************)
(* Model of the face-search bot's core:                                    *)
(*   - FaceCheckClient (src/src/facecheck_client.py): the paced transport  *)
(*     (_wait_for_rate_limit, _request_with_retry), upload_image, search,  *)
(*     get_info and the single-flight find_face;                           *)
(*   - the ephemeral result store of src/src/bot.py: pending_results,      *)
(*     pending_reminders, schedule_expiry_reminder, is_result_expired,     *)
(*     the unlock branches of handle_successful_payment and cmd_debug.     *)
(* Time is the integer number of seconds read by time.time().  A coroutine *)
(* runs atomically between two awaits; every await that suspends it is a   *)
(* position (pc) of its task.                                              *)
(***************************************************************************)
EXTENDS Integers, Sequences, FiniteSets, TLC

\* ------------------------------------------------------------- constants
MIN_REQUEST_INTERVAL == 5
MAX_RETRIES == 3
TIMEOUT == 120
POLL_INTERVAL == 3
RESULTS_EXPIRATION_SECONDS == 30 * 60
REMINDER_DELAY_SECONDS == 25 * 60

\* --------------------------------------------------------------- bounds
\* time.time() when the process starts (any value above MIN_REQUEST_INTERVAL)
StartTime == 10
\* the server finishes a search (progress >= 100, error or failure) at the
\* latest on this poll
MaxPolls == 3
\* the longest time a request that is answered takes
MaxLatency == 1

\* the store is followed for this many seconds
MaxElapsed == 1920
\* results are stored, and their reminders scheduled, in the first seconds
MaxStoreTime == 360
\* ---------------------------------------------------------------- tasks
Callers == {"c1", "c2", "c3"}
\* the two callers of the specification Spec
Pair == {"c1", "c2"}
InfoCallers == {"g1", "g2"}
Tasks == Callers \cup InfoCallers

NoId == "none"
NoProgress == -2

VARIABLES
    clock,              \* time.time()
    last_request_time,  \* FaceCheckClient._last_request_time
    locked,             \* FaceCheckClient._lock: asyncio.Lock._locked
    waiters,            \* asyncio.Lock._waiters, in arrival order
    woken,              \* waiters whose future release() has completed
    task,               \* per coroutine: position and locals
    sent,               \* history: every HTTP attempt issued, in order
    arrivals,           \* history: find_face callers in order of their call
    pending_results,    \* bot.pending_results: search_id -> stored result
    pending_reminders,  \* bot.pending_reminders: search_id -> reminder task
    last_search_by_user,\* bot.last_search_by_user
    search,             \* per search handler: position and locals
    timer,              \* per reminder task: position, wake time, cancel request
    notifications,      \* history: the reminder messages handed to send_message
    last_op,            \* history: the last user command, what it saw and answered
    unlocked_early,     \* history: ids unlocked before their reminder delay elapsed
    display,            \* the items a search returned and the view sent to the user
    db_users,           \* the rows of table "users", by telegram_id
    photo,              \* per handle_photo call: position and locals
    payment,            \* the handler of a credit purchase: position and locals
    pending_photos,     \* bot.pending_photos: the users with a stored photo
    invoices,           \* the "paid_search" invoices sent to a user and not paid
    held                \* history: the free credits granted to a user so far

clientVars == <<last_request_time, locked, waiters, woken, task, sent, arrivals>>
storeVars == <<pending_results, pending_reminders, last_search_by_user, search,
               timer, notifications, last_op, unlocked_early, display>>
creditVars == <<db_users, photo, payment, pending_photos, invoices, held>>

\* ------------------------------------------------------- server replies
\* What one attempt ends with: an HTTP response (status and JSON body), the
\* request timing out (asyncio.TimeoutError), or another transport exception.
Http(status, id, progress, error) ==
    [kind |-> "http", status |-> status, id_search |-> id,
     progress |-> progress, error |-> error]
TimedOut == [kind |-> "timeout", status |-> 0, id_search |-> NoId,
             progress |-> NoProgress, error |-> ""]
Raised == [kind |-> "exc", status |-> 0, id_search |-> NoId,
           progress |-> NoProgress, error |-> ""]
NoResponse == [kind |-> "none", status |-> 0, id_search |-> NoId,
               progress |-> NoProgress, error |-> ""]

\* progress values a poll response may carry (NoProgress: missing or null)
Progresses == {NoProgress, 0, 15, 20, 25, 40, 50, 60, 80, 100}
Errors == {"", "quota exceeded"}

Failures == {Http(429, NoId, NoProgress, ""), Http(404, NoId, NoProgress, ""),
             Http(500, NoId, NoProgress, ""), TimedOut, Raised}
UploadReplies == {Http(200, "S1", NoProgress, ""), Http(200, NoId, NoProgress, "")}
PollReplies == {Http(200, NoId, p, e) : p \in Progresses, e \in Errors}
InfoReplies == {Http(200, NoId, NoProgress, "")}

StageReplies(stage) ==
    Failures \cup (CASE stage = "upload" -> UploadReplies
                     [] stage = "poll" -> PollReplies
                     [] OTHER -> InfoReplies)

\* A reply after which search() polls again.
PollsAgain(r) ==
    /\ r.kind = "http" /\ r.status = 200 /\ r.error = ""
    /\ r.progress < 100

\* ------------------------------------------------------ results returned
Pending == [kind |-> "pending", error |-> ""]
NoneResult == [kind |-> "None", error |-> ""]
ErrorResult(msg) == [kind |-> "error", error |-> msg]
DataResult == [kind |-> "data", error |-> ""]

\* Per task: pc, the position; stage, attempt, id_search, last_progress, the
\* locals of the running coroutines; wake, the time its sleep or its request
\* ends; tmo, whether the request in flight times out.  History: polls, the
\* poll sends started; waits, the retry sleeps of the current send; outcomes,
\* how the attempts of the current send ended; returned, what each send
\* returned; seen, the progress of each 200 poll reply; notified, the
\* arguments of the on_progress calls; last_reply, the last reply with the
\* history lengths when it arrived.
IdleTask ==
    [pc |-> "idle", stage |-> "none", attempt |-> 0, wake |-> 0, tmo |-> FALSE,
     id_search |-> NoId, last_progress |-> -1, polls |-> 0, result |-> Pending,
     waits |-> <<>>, outcomes |-> <<>>, notified |-> <<>>, seen |-> <<>>,
     last_reply |-> [reply |-> NoResponse, nsent |-> 0, nnotified |-> 0],
     returned |-> <<>>]

\* ----------------------------------------------------- Paced Transport
\* _wait_for_rate_limit: how long the caller sleeps before this attempt.
RateLimitWait(now, last) ==
    IF now - last < MIN_REQUEST_INTERVAL
    THEN MIN_REQUEST_INTERVAL - (now - last)
    ELSE 0

\* mutant: every status from 400 up is retried
RetriedStatusAnyError(response) ==
    response.kind = "http" /\ response.status >= 400

\* "if response.status == 429": the response is not returned, the attempt
\* is followed by a backoff sleep
RetriedStatus(response) ==
    response.kind = "http" /\ response.status = 429

\* mutant: the same sleep after every 429
BackoffWaitFlat(attempt) == 30

\* the sleep after a 429 on attempt (0-indexed)
BackoffWait(attempt) == 30 * (attempt + 1)

\* mutant: the same sleep after every timeout
TimeoutWaitFlat(attempt) ==
    IF attempt < MAX_RETRIES - 1 THEN 5 ELSE 0

\* the sleep after a timeout on attempt (0-indexed); 0: no sleep
TimeoutWait(attempt) ==
    IF attempt < MAX_RETRIES - 1 THEN 5 * (attempt + 1) ELSE 0

\* mutant: the loop runs twice as many attempts
HasAttemptTwice(attempt) == attempt < 2 * MAX_RETRIES

\* range(MAX_RETRIES): whether the loop runs its body for this attempt
HasAttempt(attempt) == attempt < MAX_RETRIES

\* _last_request_time = time.time(), then session.post/get: the attempt
\* starts; it is answered after lat seconds, or times out (lat = TIMEOUT).
IssueRequest(t, rec, lat) ==
    /\ task' = [task EXCEPT ![t] =
                  [rec EXCEPT !.pc = "inflight", !.wake = clock + lat,
                              !.tmo = (lat = TIMEOUT)]]
    /\ last_request_time' = clock
    /\ sent' = Append(sent, [task |-> t, stage |-> rec.stage,
                             attempt |-> rec.attempt, time |-> clock])

\* One iteration of the retry loop up to its first suspension: either the
\* rate-limit sleep, or the request itself.
EnterAttempt(t, rec, lat) ==
    LET wait_time == RateLimitWait(clock, last_request_time) IN
    IF wait_time > 0
    THEN /\ task' = [task EXCEPT ![t] =
                       [rec EXCEPT !.pc = "rate_wait", !.wake = clock + wait_time]]
         /\ UNCHANGED <<last_request_time, sent>>
    ELSE IssueRequest(t, rec, lat)

\* a fresh _request_with_retry call
NewSend(rec, stage) ==
    [rec EXCEPT !.stage = stage, !.attempt = 0, !.waits = <<>>, !.outcomes = <<>>]

\* ------------------------------------------------------ single-flight gate
lockVars == <<locked, waiters, woken>>

\* mutant: the lock is taken without looking at its state
CanAcquireAlways == TRUE

\* asyncio.Lock.acquire's fast path
CanAcquire == ~locked /\ waiters = <<>>

\* mutant: release unlocks but completes no waiter's future
ReleaseWakesNobody ==
    /\ locked' = FALSE
    /\ woken' = {}
    /\ UNCHANGED waiters

\* mutant: release wakes the waiter that arrived last
ReleaseLast ==
    /\ locked' = FALSE
    /\ woken' = IF waiters # <<>> THEN {waiters[Len(waiters)]} ELSE {}
    /\ UNCHANGED waiters

\* asyncio.Lock.release: unlock and complete the first waiter's future
Release ==
    /\ locked' = FALSE
    /\ woken' = IF waiters # <<>> THEN {Head(waiters)} ELSE {}
    /\ UNCHANGED waiters

\* The coroutine returns res to its caller; find_face leaves "async with".
Finish(t, rec, res) ==
    /\ task' = [task EXCEPT ![t] = [rec EXCEPT !.pc = "done", !.result = res]]
    /\ IF t \in Callers THEN Release ELSE UNCHANGED lockVars
    /\ UNCHANGED <<last_request_time, sent>>

Proceed(t, rec, lat) == EnterAttempt(t, rec, lat) /\ UNCHANGED lockVars

\* The coroutine suspends in a sleep.
Suspend(t, rec) ==
    /\ task' = [task EXCEPT ![t] = rec]
    /\ UNCHANGED <<last_request_time, sent, lockVars>>

\* --------------------------------------------------- Search Orchestrator
\* mutant: whatever the response, a search id comes out of it
UploadedIdAlways(response) == "S1"

\* upload_image: the id_search of a 200 response, else None
UploadedId(response) ==
    IF response.kind = "http" /\ response.status = 200
    THEN response.id_search
    ELSE NoId

\* data.get("progress", 0) or 0
ProgressOf(data) == IF data.progress = NoProgress THEN 0 ELSE data.progress

\* mutant: every multiple of 20 is passed on, whatever was passed before
ShouldNotifyAnyMultiple(progress, last_progress) == progress % 20 = 0

\* the guard of the on_progress call (the bot always passes on_progress)
ShouldNotify(progress, last_progress) ==
    progress > last_progress /\ progress % 20 = 0

\* mutant: the error field is looked at after the progress notification
PollStepNotifyFirst(data, last_progress) ==
    LET progress == ProgressOf(data) IN
    [next |-> IF data.error # "" THEN "error"
              ELSE IF progress >= 100 THEN "return" ELSE "sleep",
     notify |-> progress > last_progress /\ progress % 20 = 0]

\* One pass of search()'s loop body over a 200 response: what it does next
\* and whether it invokes on_progress first.
PollStep(data, last_progress) ==
    LET progress == ProgressOf(data) IN
    IF data.error # ""
    THEN [next |-> "error", notify |-> FALSE]
    ELSE [next |-> IF progress >= 100 THEN "return" ELSE "sleep",
          notify |-> ShouldNotify(progress, last_progress)]

PollBody(t, rec, data) ==
    LET progress == ProgressOf(data)
        step == PollStep(data, rec.last_progress)
        rec1 == IF data.error = ""
                THEN [rec EXCEPT !.seen = Append(@, progress)]
                ELSE rec
        rec2 == IF step.notify
                THEN [rec1 EXCEPT !.notified = Append(@, progress),
                                  !.last_progress = progress]
                ELSE rec1
    IN CASE step.next = "error" -> Finish(t, rec2, ErrorResult(data.error))
         [] step.next = "return" -> Finish(t, rec2, DataResult)
         [] OTHER -> Suspend(t, [rec2 EXCEPT !.pc = "poll_sleep",
                                             !.wake = clock + POLL_INTERVAL])

\* mutant: upload_image and search let the exception through
ExceptionResultRaised(stage) == [kind |-> "raised", error |-> ""]

\* what each coroutine's "except Exception" returns
ExceptionResult(stage) ==
    CASE stage = "upload" -> ErrorResult("Failed to upload image")
      [] stage = "poll" -> ErrorResult("Network error")
      [] OTHER -> NoneResult

\* _request_with_retry has returned response (NoResponse: None) to
\* upload_image, search or get_info, which runs on to its next suspension.
SendReturned(t, rec0, response, lat) ==
    LET rec == [rec0 EXCEPT !.returned = Append(@, response)] IN
    CASE rec.stage = "info" ->
           Finish(t, rec, IF response.kind = "http" /\ response.status = 200
                          THEN DataResult ELSE NoneResult)
      [] rec.stage = "upload" ->
           LET id_search == UploadedId(response) IN
           IF id_search = NoId
           THEN Finish(t, rec, ErrorResult("Failed to upload image"))
           ELSE Proceed(t, [NewSend(rec, "poll") EXCEPT !.id_search = id_search,
                                                        !.last_progress = -1,
                                                        !.polls = 1], lat)
      [] OTHER ->
           IF response.kind # "http" \/ response.status # 200
           THEN Finish(t, rec, NoneResult)
           ELSE PollBody(t, rec, response)

\* "continue": the next iteration of the retry loop, or its end
NextAttempt(t, rec, lat) ==
    LET rec1 == [rec EXCEPT !.attempt = @ + 1] IN
    IF HasAttempt(rec1.attempt)
    THEN Proceed(t, rec1, lat)
    ELSE SendReturned(t, rec1, NoResponse, lat)

\* the attempts task t has issued so far
RequestsOf(t) == SelectSeq(sent, LAMBDA q : q.task = t)

\* ---------------------------------------------------------------- actions
\* find_face is called: "async with self._lock", then upload_image
FindFace(t, lat) ==
    /\ task[t].pc = "idle"
    /\ arrivals' = Append(arrivals, t)
    /\ IF CanAcquire
       THEN /\ locked' = TRUE
            /\ UNCHANGED <<waiters, woken>>
            /\ EnterAttempt(t, NewSend(task[t], "upload"), lat)
       ELSE /\ waiters' = Append(waiters, t)
            /\ task' = [task EXCEPT ![t].pc = "lock_wait"]
            /\ UNCHANGED <<locked, woken, last_request_time, sent>>
    /\ UNCHANGED <<clock, storeVars, creditVars>>

\* a waiter resumes from "await fut" in Lock.acquire and takes the lock
LockGranted(t, lat) ==
    /\ task[t].pc = "lock_wait"
    /\ t \in woken
    /\ waiters' = SelectSeq(waiters, LAMBDA w : w # t)
    /\ woken' = woken \ {t}
    /\ locked' = TRUE
    /\ EnterAttempt(t, NewSend(task[t], "upload"), lat)
    /\ UNCHANGED <<clock, arrivals, storeVars, creditVars>>

\* get_info is called (by /info or by check_api_balance_and_alert)
GetInfo(t, lat) ==
    /\ task[t].pc = "idle"
    /\ Proceed(t, NewSend(task[t], "info"), lat)
    /\ UNCHANGED <<clock, arrivals, storeVars, creditVars>>

\* the rate-limit sleep is over: stamp _last_request_time and send
RateLimitWake(t, lat) ==
    /\ task[t].pc = "rate_wait"
    /\ clock = task[t].wake
    /\ IssueRequest(t, task[t], lat)
    /\ UNCHANGED <<lockVars, clock, arrivals, storeVars, creditVars>>

\* the attempt of task t ends with reply r
Response(t, r, lat) ==
    LET rec0 == task[t]
        rec == [rec0 EXCEPT
                  !.outcomes = Append(@, [kind |-> r.kind, status |-> r.status]),
                  !.last_reply = [reply |-> r, nsent |-> Len(RequestsOf(t)),
                                  nnotified |-> Len(rec0.notified)]]
    IN
    /\ rec0.pc = "inflight"
    /\ clock = rec0.wake
    /\ r \in StageReplies(rec0.stage)
    /\ rec0.tmo <=> (r.kind = "timeout")
    /\ (rec0.stage = "poll" /\ rec0.polls >= MaxPolls) => ~PollsAgain(r)
    /\ CASE RetriedStatus(r) ->
              Suspend(t, [rec EXCEPT !.pc = "backoff",
                                     !.wake = clock + BackoffWait(rec.attempt),
                                     !.waits = Append(@, BackoffWait(rec.attempt))])
         [] r.kind = "timeout" ->
              IF TimeoutWait(rec.attempt) > 0
              THEN Suspend(t, [rec EXCEPT !.pc = "backoff",
                                          !.wake = clock + TimeoutWait(rec.attempt),
                                          !.waits = Append(@, TimeoutWait(rec.attempt))])
              ELSE NextAttempt(t, rec, lat)
         [] r.kind = "exc" -> Finish(t, rec, ExceptionResult(rec.stage))
         [] OTHER -> SendReturned(t, rec, r, lat)
    /\ UNCHANGED <<clock, arrivals, storeVars, creditVars>>

\* the sleep after a 429 or a timeout is over: "continue"
BackoffWake(t, lat) ==
    /\ task[t].pc = "backoff"
    /\ clock = task[t].wake
    /\ NextAttempt(t, task[t], lat)
    /\ UNCHANGED <<clock, arrivals, storeVars, creditVars>>

\* asyncio.sleep(3) in search() is over: the next poll
PollWake(t, lat) ==
    /\ task[t].pc = "poll_sleep"
    /\ clock = task[t].wake
    /\ Proceed(t, [NewSend(task[t], "poll") EXCEPT !.polls = @ + 1], lat)
    /\ UNCHANGED <<clock, arrivals, storeVars, creditVars>>

\* ------------------------------------------------------------------ time
Timed(t) == task[t].pc \in {"rate_wait", "inflight", "backoff", "poll_sleep"}

MinWake == CHOOSE w \in {task[t].wake : t \in {u \in Tasks : Timed(u)}} :
              \A t \in Tasks : Timed(t) => w <= task[t].wake

\* Time passes up to the next moment a sleep ends or a reply arrives; with
\* nothing pending, second by second while the rate limit still matters.
AdvanceClock ==
    /\ woken = {}
    /\ IF \E t \in Tasks : Timed(t)
       THEN /\ MinWake > clock
            /\ clock' = MinWake
       ELSE /\ \E t \in Tasks : task[t].pc = "idle"
            /\ clock - last_request_time < MIN_REQUEST_INTERVAL
            /\ clock' = clock + 1
    /\ UNCHANGED <<clientVars, storeVars, creditVars>>

\* -------------------------------------------------------- specifications
Latencies == 1..MaxLatency

InitClient ==
    /\ last_request_time = 0
    /\ locked = FALSE
    /\ waiters = <<>>
    /\ woken = {}
    /\ task = [t \in Tasks |-> IdleTask]
    /\ sent = <<>>
    /\ arrivals = <<>>

vars == <<clock, last_request_time, locked, waiters, woken, task, sent, arrivals,
          pending_results, pending_reminders, last_search_by_user, search, timer,
          notifications, last_op, unlocked_early, display,
          db_users, photo, payment, pending_photos, invoices, held>>


\* ================================================== Ephemeral Result Store
SearchIds == {"S1", "S2"}
Users == {"u1", "u2"}
\* the search handlers that reach the point of storing a result
Searches == {1, 2}
\* Ids and users are interchangeable: the first handler's are fixed.
UsersOf(h) == IF h = 1 THEN {"u1"} ELSE Users
IdsOf(h) == IF h = 1 THEN {"S1"} ELSE SearchIds
NoEntry == [created_at |-> -1, unlocked |-> FALSE, owner |-> "nobody", search |-> 0]
NoTimer == 0
NoSearch == "none"

\* "search_id in pending_results"
InResults(search_id) == pending_results[search_id] # NoEntry

\* mutant: an entry expires when its age reaches the TTL
IsResultExpiredAtTTL(search_id) ==
    IF ~InResults(search_id)
    THEN TRUE
    ELSE (clock - pending_results[search_id].created_at) >= RESULTS_EXPIRATION_SECONDS

\* is_result_expired at the current time
IsResultExpired(search_id) ==
    IF ~InResults(search_id)
    THEN TRUE
    ELSE (clock - pending_results[search_id].created_at) > RESULTS_EXPIRATION_SECONDS

\* nothing was sent to the user yet
NoDisplay == [kind |-> "none", items |-> <<>>, shown |-> <<>>]

InitStore ==
    /\ pending_results = [s \in SearchIds |-> NoEntry]
    /\ pending_reminders = [s \in SearchIds |-> NoTimer]
    /\ last_search_by_user = [u \in Users |-> NoSearch]
    /\ search = [h \in Searches |-> [pc |-> "idle", kind |-> "none",
                                     user |-> "nobody", search_id |-> NoSearch]]
    /\ timer = [h \in Searches |-> [pc |-> "none", wake |-> 0, cancelled |-> FALSE,
                                    send_failed |-> FALSE]]
    /\ notifications = <<>>
    /\ last_op = [op |-> "none", search_id |-> NoSearch, reply |-> "none"]
    /\ unlocked_early = {}
    /\ display = NoDisplay

\* ------------------------------------------------------------- credits
\* the handle_photo calls and the credit purchases that are followed
MaxPhotos == 2
MaxPayments == 1
Photos == 1..MaxPhotos
\* add_paid_searches(user_id, 1) and add_paid_searches(user_id, 5)
PackSizes == {1, 5}

\* no row of table "users" has this telegram_id
NoRow == [free_searches |-> -1, paid_searches |-> -1, last_free_grant |-> "absent"]
HasRow(u) == db_users[u] # NoRow

\* The row get_or_create_user inserts. The insert leaves last_free_grant to
\* the column default of the database: none, or the time of the insert.
NewUser(last_free_grant) ==
    [free_searches |-> 1, paid_searches |-> 0, last_free_grant |-> last_free_grant]
GrantDefaults == {"none", "now"}

IdlePhoto ==
    [pc |-> "idle", user |-> "nobody", row |-> NoRow, free_searches |-> -1,
     paid_searches |-> -1, result |-> "unset", invoiced |-> FALSE, used |-> "none"]
IdlePayment == [pc |-> "idle", user |-> "nobody", amount |-> 0, current |-> 0, count |-> 0]

InitCredits ==
    /\ db_users = [u \in Users |-> NoRow]
    /\ photo = [p \in Photos |-> IdlePhoto]
    /\ payment = IdlePayment
    /\ pending_photos = [u \in Users |-> FALSE]
    /\ invoices = [u \in Users |-> 0]
    /\ held = [u \in Users |-> 0]

Init ==
    /\ clock = StartTime
    /\ InitClient
    /\ InitStore
    /\ InitCredits

\* what a command leaves in last_op
Op(op, search_id, reply) ==
    [op |-> op, search_id |-> search_id, reply |-> reply]

\* mutant: a put under an id that is already stored keeps the old entry
StoreResultKeepsFirst(h, kind, user, search_id) ==
    /\ search[h].pc = "idle"
    /\ clock <= StartTime + MaxStoreTime
    /\ pending_results' = [pending_results EXCEPT ![search_id] =
          IF InResults(search_id)
          THEN @
          ELSE [created_at |-> clock, unlocked |-> FALSE, owner |-> user, search |-> h]]
    /\ last_search_by_user' = [last_search_by_user EXCEPT ![user] = search_id]
    /\ search' = [search EXCEPT ![h] =
          [pc |-> IF kind = "free" THEN "stored" ELSE "done",
           kind |-> kind, user |-> user, search_id |-> search_id]]
    /\ UNCHANGED <<clock, clientVars, creditVars, display, pending_reminders, timer, notifications,
                   last_op, unlocked_early>>

\* execute_free_search / execute_paid_search, after find_face returned
\* matches: the result is stored under its search id with the current time.
StoreResult(h, kind, user, search_id) ==
    /\ search[h].pc = "idle"
    /\ clock <= StartTime + MaxStoreTime
    /\ pending_results' = [pending_results EXCEPT ![search_id] =
          [created_at |-> clock, unlocked |-> FALSE, owner |-> user, search |-> h]]
    /\ last_search_by_user' = [last_search_by_user EXCEPT ![user] = search_id]
    /\ search' = [search EXCEPT ![h] =
          [pc |-> IF kind = "free" THEN "stored" ELSE "done",
           kind |-> kind, user |-> user, search_id |-> search_id]]
    /\ UNCHANGED <<clock, clientVars, creditVars, display, pending_reminders, timer, notifications,
                   last_op, unlocked_early>>

\* execute_free_search, after the results were sent: create_task of
\* schedule_expiry_reminder and its registration
ScheduleReminder(h) ==
    /\ search[h].pc = "stored"
    /\ clock <= StartTime + MaxStoreTime
    /\ timer' = [timer EXCEPT ![h] = [pc |-> "created", wake |-> 0, cancelled |-> FALSE,
                                      send_failed |-> FALSE]]
    /\ pending_reminders' = [pending_reminders EXCEPT ![search[h].search_id] = h]
    /\ search' = [search EXCEPT ![h].pc = "done"]
    /\ UNCHANGED <<clock, clientVars, creditVars, display, pending_results, last_search_by_user,
                   notifications, last_op, unlocked_early>>

\* the "finally" of schedule_expiry_reminder
Cleanup(search_id) ==
    IF pending_reminders[search_id] # NoTimer
    THEN [pending_reminders EXCEPT ![search_id] = NoTimer]
    ELSE pending_reminders

\* The reminder task runs its first step, up to asyncio.sleep; a task
\* cancelled before its first step never enters the coroutine.
TimerStart(h) ==
    /\ timer[h].pc = "created"
    /\ timer' = [timer EXCEPT ![h] =
          IF timer[h].cancelled
          THEN [@ EXCEPT !.pc = "done"]
          ELSE [@ EXCEPT !.pc = "sleeping", !.wake = clock + REMINDER_DELAY_SECONDS]]
    /\ UNCHANGED <<clock, clientVars, creditVars, display, pending_results, pending_reminders,
                   last_search_by_user, search, notifications, last_op,
                   unlocked_early>>

\* mutant: the notifier is invoked whatever the store holds
ShouldRemindAlways(search_id) == TRUE

\* mutant: the fire-time check forgets the unlocked flag
ShouldRemindAnyEntry(search_id) == InResults(search_id)

\* the fire-time check of schedule_expiry_reminder
ShouldRemind(search_id) ==
    InResults(search_id) /\ ~pending_results[search_id].unlocked

\* The delay has elapsed: the fire-time check, then either the notifier
\* (bot.send_message, in which the task is suspended) or the cleanup.
TimerFire(h) ==
    LET search_id == search[h].search_id IN
    /\ timer[h].pc = "sleeping"
    /\ ~timer[h].cancelled
    /\ clock = timer[h].wake
    /\ IF ShouldRemind(search_id)
       THEN /\ timer' = [timer EXCEPT ![h].pc = "sending"]
            /\ notifications' = Append(notifications,
                  [search_id |-> search_id, user |-> search[h].user,
                   time |-> clock, timer |-> h,
                   expired |-> IsResultExpired(search_id),
                   owner |-> pending_results[search_id].owner])
            /\ UNCHANGED pending_reminders
       ELSE /\ timer' = [timer EXCEPT ![h].pc = "done"]
            /\ pending_reminders' = Cleanup(search_id)
            /\ UNCHANGED notifications
    /\ UNCHANGED <<clock, clientVars, creditVars, display, pending_results, last_search_by_user,
                   search, last_op, unlocked_early>>

\* mutant: the exception of send_message leaves the task
TimerSendFailedEscapes(h) ==
    /\ timer[h].pc = "sending"
    /\ ~timer[h].cancelled
    /\ timer' = [timer EXCEPT ![h].pc = "crashed", ![h].send_failed = TRUE]
    /\ pending_reminders' = Cleanup(search[h].search_id)
    /\ UNCHANGED <<clock, clientVars, creditVars, display, pending_results, last_search_by_user,
                   search, notifications, last_op, unlocked_early>>

\* send_message raised an Exception: it is logged by the inner except, and
\* the task goes on to the cleanup
TimerSendFailed(h) ==
    /\ timer[h].pc = "sending"
    /\ ~timer[h].cancelled
    /\ timer' = [timer EXCEPT ![h].pc = "done", ![h].send_failed = TRUE]
    /\ pending_reminders' = Cleanup(search[h].search_id)
    /\ UNCHANGED <<clock, clientVars, creditVars, display, pending_results, last_search_by_user,
                   search, notifications, last_op, unlocked_early>>

\* send_message returned: the cleanup
TimerSent(h) ==
    /\ timer[h].pc = "sending"
    /\ ~timer[h].cancelled
    /\ timer' = [timer EXCEPT ![h].pc = "done"]
    /\ pending_reminders' = Cleanup(search[h].search_id)
    /\ UNCHANGED <<clock, clientVars, creditVars, display, pending_results, last_search_by_user,
                   search, notifications, last_op, unlocked_early>>

\* CancelledError reaches the task at its await (the sleep or the
\* send_message): except CancelledError, then the cleanup
TimerCancelled(h) ==
    /\ timer[h].pc \in {"sleeping", "sending"}
    /\ timer[h].cancelled
    /\ timer' = [timer EXCEPT ![h].pc = "done"]
    /\ pending_reminders' = Cleanup(search[h].search_id)
    /\ UNCHANGED <<clock, clientVars, creditVars, display, pending_results, last_search_by_user,
                   search, notifications, last_op, unlocked_early>>

\* mutant: cancel() is not called
CancelNothing(h) == timer

\* Task.cancel(): a request, refused by a task that is done
Cancel(h) ==
    IF timer[h].pc = "done"
    THEN timer
    ELSE [timer EXCEPT ![h].cancelled = TRUE]

\* the guard of both unlock branches
CanUnlock(search_id) == InResults(search_id) /\ ~IsResultExpired(search_id)

\* handle_successful_payment, payload unlock_all_<search_id>
UnlockAll(search_id) ==
    /\ IF pending_reminders[search_id] # NoTimer
       THEN /\ timer' = Cancel(pending_reminders[search_id])
            /\ pending_reminders' = [pending_reminders EXCEPT ![search_id] = NoTimer]
       ELSE UNCHANGED <<timer, pending_reminders>>
    /\ IF CanUnlock(search_id)
       THEN /\ pending_results' = [pending_results EXCEPT ![search_id].unlocked = TRUE]
            /\ last_op' = Op("unlock_all", search_id, "unlocked")
            /\ unlocked_early' =
                  IF clock < pending_results[search_id].created_at + REMINDER_DELAY_SECONDS
                  THEN unlocked_early \cup {search_id}
                  ELSE unlocked_early
       ELSE /\ last_op' = Op("unlock_all", search_id, "expired")
            /\ UNCHANGED <<pending_results, unlocked_early>>
    /\ UNCHANGED <<clock, clientVars, creditVars, display, last_search_by_user, search, notifications>>

\* mutant: the single-link unlock deletes an entry it finds expired
UnlockSingleSweeps(search_id) ==
    /\ last_op' = Op("unlock", search_id,
                     IF CanUnlock(search_id) THEN "link" ELSE "expired")
    /\ pending_results' =
          IF CanUnlock(search_id)
          THEN pending_results
          ELSE [pending_results EXCEPT ![search_id] = NoEntry]
    /\ UNCHANGED <<clock, clientVars, creditVars, display, pending_reminders,
                   last_search_by_user, search, timer, notifications, unlocked_early>>

\* handle_successful_payment, payload unlock_<search_id>_<index>
UnlockSingle(search_id) ==
    /\ last_op' = Op("unlock", search_id,
                     IF CanUnlock(search_id) THEN "link" ELSE "expired")
    /\ UNCHANGED <<clock, clientVars, creditVars, display, pending_results, pending_reminders,
                   last_search_by_user, search, timer, notifications, unlocked_early>>

\* what /debug answers for the user's last search id
DebugReply(search_id) ==
    IF ~InResults(search_id) THEN "expired" ELSE "listing"

\* cmd_debug
Debug(user) ==
    /\ last_op' =
          IF last_search_by_user[user] = NoSearch
          THEN Op("debug", NoSearch, "not found")
          ELSE Op("debug", last_search_by_user[user],
                  DebugReply(last_search_by_user[user]))
    /\ UNCHANGED <<clock, clientVars, creditVars, display, pending_results, pending_reminders,
                   last_search_by_user, search, timer, notifications, unlocked_early>>

\* A reminder task that runs at once: its first step, a delivered
\* cancellation, an elapsed delay.
TimerReady(h) ==
    \/ timer[h].pc = "created"
    \/ timer[h].pc \in {"sleeping", "sending"} /\ timer[h].cancelled
    \/ timer[h].pc = "sleeping" /\ timer[h].wake <= clock

\* The moments (seconds after the start) at which commands arrive, besides
\* the moments a reminder is due.
Instants == {360, 1740, 1800, 1860}

Moments ==
    {StartTime + i : i \in Instants}
       \cup {timer[h].wake : h \in {g \in Searches : timer[g].pc = "sleeping"}}

\* time passes up to the next moment
Advance ==
    LET later == {m \in Moments : m > clock} IN
    /\ \A h \in Searches : ~TimerReady(h)
    /\ later # {}
    /\ clock' = CHOOSE m \in later : \A n \in later : m <= n
    /\ clock' <= StartTime + MaxElapsed
    /\ UNCHANGED <<clientVars, storeVars, creditVars>>

NextStore ==
    \/ \E h \in Searches, kind \in {"free", "paid"} :
          \E user \in UsersOf(h), search_id \in IdsOf(h) :
             StoreResult(h, kind, user, search_id)
    \/ \E h \in Searches : ScheduleReminder(h)
    \/ \E h \in Searches : TimerStart(h)
    \/ \E h \in Searches : TimerFire(h)
    \/ \E h \in Searches : TimerSent(h)
    \/ \E h \in Searches : TimerCancelled(h)
    \/ \E search_id \in SearchIds : UnlockAll(search_id)
    \/ \E search_id \in SearchIds : UnlockSingle(search_id)
    \/ \E user \in Users : Debug(user)
    \/ Advance

SpecStore == Init /\ [][NextStore]_vars

\* The transport alone: two concurrent get_info calls, every kind of reply.
NextTransport ==
    \/ \E t \in InfoCallers, lat \in Latencies \cup {TIMEOUT} : GetInfo(t, lat)
    \/ \E t \in InfoCallers, lat \in Latencies \cup {TIMEOUT} : RateLimitWake(t, lat)
    \/ \E t \in InfoCallers, r \in StageReplies("info"), lat \in Latencies \cup {TIMEOUT} :
          Response(t, r, lat)
    \/ \E t \in InfoCallers, lat \in Latencies \cup {TIMEOUT} : BackoffWake(t, lat)
    \/ AdvanceClock

SpecTransport == Init /\ [][NextTransport]_vars

\* One search alone: find_face by one caller; the server answers each attempt
\* with a status and a body, or the connection breaks; no 429, no timeout.
SearchReplies ==
    {Http(500, NoId, NoProgress, ""), Raised} \cup UploadReplies \cup PollReplies

NextSearch ==
    \/ \E lat \in Latencies : FindFace("c1", lat)
    \/ \E lat \in Latencies : RateLimitWake("c1", lat)
    \/ \E r \in SearchReplies, lat \in Latencies : Response("c1", r, lat)
    \/ \E lat \in Latencies : PollWake("c1", lat)
    \/ AdvanceClock

SpecSearch == Init /\ [][NextSearch]_vars

\* The client under concurrency: two find_face callers (Pair) and one get_info
\* caller; uploads succeed or fail, polls report progress, an error or fail.
GateReplies ==
    {Http(500, NoId, NoProgress, ""), Http(200, "S1", NoProgress, ""),
     Http(200, NoId, 50, ""), Http(200, NoId, 100, ""),
     Http(200, NoId, 50, "quota exceeded")}

Next ==
    \/ \E t \in Pair, lat \in Latencies : FindFace(t, lat)
    \/ \E t \in Pair, lat \in Latencies : LockGranted(t, lat)
    \/ \E lat \in Latencies : GetInfo("g1", lat)
    \/ \E t \in Tasks, lat \in Latencies : RateLimitWake(t, lat)
    \/ \E t \in Tasks, r \in GateReplies, lat \in Latencies : Response(t, r, lat)
    \/ \E t \in Pair, lat \in Latencies : PollWake(t, lat)
    \/ AdvanceClock

Spec == Init /\ [][Next]_vars

\* ------------------------------------------------ C3, C4: retry and backoff
Is429(o) == o.kind = "http" /\ o.status = 429
IsTimeout(o) == o.kind = "timeout"

\* C3: when every attempt of one send is answered with 429, exactly 3
\* attempts are made, the backoff sleeps are 30, 60 and 90 seconds in that
\* order (the n-th one follows the n-th 429), the send then returns None,
\* and a 4th attempt is never made.
C3_Backoff429 ==
    \A t \in InfoCallers :
       LET o == task[t].outcomes IN
       /\ Len(RequestsOf(t)) <= MAX_RETRIES
       /\ (\A i \in 1..Len(o) : Is429(o[i])) =>
            /\ task[t].waits = SubSeq(<<30, 60, 90>>, 1, Len(o))
            /\ (task[t].pc = "done" /\ Len(o) > 0) =>
                  /\ Len(o) = 3
                  /\ Len(RequestsOf(t)) = 3
                  /\ task[t].returned = <<NoResponse>>
                  /\ task[t].result = NoneResult

C3_Witness ==
    \E t \in InfoCallers :
       /\ task[t].pc = "done"
       /\ Len(task[t].outcomes) = 3
       /\ \A i \in 1..3 : Is429(task[t].outcomes[i])

\* C4: a timeout on attempt n < MAX_RETRIES is followed by a sleep of 5*n
\* seconds and by attempt n+1; whatever the mix of 429 replies and timeouts,
\* one send makes at most MAX_RETRIES attempts, and when the last allowed
\* attempt fails too (429 or timeout) the send returns None.
C4_TimeoutRetry ==
    \A t \in InfoCallers :
       LET o == task[t].outcomes
           w == task[t].waits
       IN
       /\ Len(o) <= MAX_RETRIES
       /\ Len(RequestsOf(t)) <= MAX_RETRIES
       /\ \A n \in 1..Len(o) :
            /\ (IsTimeout(o[n]) /\ n < MAX_RETRIES) =>
                  /\ Len(w) >= n /\ w[n] = 5 * n
                  /\ task[t].pc = "done" => Len(o) > n
            /\ Is429(o[n]) => (Len(w) >= n /\ w[n] = 30 * n)
       /\ (task[t].pc = "done" /\ Len(o) = MAX_RETRIES
             /\ (Is429(o[MAX_RETRIES]) \/ IsTimeout(o[MAX_RETRIES]))) =>
            /\ task[t].returned = <<NoResponse>>
            /\ task[t].result = NoneResult

C4_Witness ==
    \E t \in InfoCallers :
       /\ task[t].pc = "done"
       /\ Len(task[t].outcomes) = 3
       /\ IsTimeout(task[t].outcomes[1])
       /\ Is429(task[t].outcomes[2])
       /\ IsTimeout(task[t].outcomes[3])
       /\ task[t].waits = <<5, 60>>

\* ------------------------------------------------- C1: single-flight gate
\* between acquiring the gate and returning the outcome
InGate(t) == task[t].pc \notin {"idle", "lock_wait", "done"}

\* C1: at any moment at most one find_face caller is between acquiring the
\* gate and returning its outcome, it holds the lock, and in the order of
\* the HTTP attempts no request of a caller lies between two requests of
\* another caller, nor after the upload of a caller that has not returned.
C1_SingleFlight ==
    /\ Cardinality({t \in Callers : InGate(t)}) <= 1
    /\ \A t \in Callers : InGate(t) => locked
    /\ \A i, j, k \in 1..Len(sent) :
          (i < j /\ j < k /\ sent[i].task \in Callers
             /\ sent[k].task = sent[i].task) =>
          (sent[j].task \in Callers => sent[j].task = sent[i].task)
    /\ \A i, j \in 1..Len(sent) :
          (i < j /\ sent[i].task \in Callers /\ sent[j].task \in Callers
             /\ sent[j].task # sent[i].task) =>
          task[sent[i].task].pc = "done"

C1_Witness ==
    \E a, b \in Callers :
       /\ a # b
       /\ task[a].pc = "done"
       /\ task[a].polls > 0
       /\ InGate(b)
       /\ task[b].stage = "poll"
       /\ arrivals = <<a, b>>
       /\ sent[1].task = a /\ sent[1].time = StartTime
       /\ \E i \in 1..Len(sent) : sent[i].task = b /\ sent[i].stage = "upload"

\* --------------------------------------------------------- C2: pacing
\* C2: any two HTTP attempts of the client start at least
\* MIN_REQUEST_INTERVAL seconds apart, whoever issues them.
C2_Pacing ==
    \A i \in 1..Len(sent) :
       i > 1 => sent[i].time - sent[i - 1].time >= MIN_REQUEST_INTERVAL

\* ------------------------------------------------ C5: progress notification
Thresholds == {20, 40, 60, 80}
Monotone(seq) == \A i \in 1..Len(seq) : i > 1 => seq[i - 1] <= seq[i]
Crossed(seq) == {m \in Thresholds : \E i \in 1..Len(seq) : seq[i] >= m}
Increasing(S) ==
    CHOOSE q \in [1..Cardinality(S) -> S] :
       \A i, j \in 1..Cardinality(S) : i < j => q[i] < q[j]

\* C5: for a search whose poll replies carry non-decreasing progress, the
\* on_progress calls for 20, 40, 60, 80 are exactly the multiples the
\* progress has reached or crossed so far, each once, in increasing order.
C5_ProgressCrossings ==
    \A t \in Callers :
       Monotone(task[t].seen) =>
          SelectSeq(task[t].notified, LAMBDA v : v \in Thresholds)
             = Increasing(Crossed(task[t].seen))

\* ------------------------------------------------- C6: server-reported error
HasError(r) == r.kind = "http" /\ r.status = 200 /\ r.error # ""

\* C6: once a 200 poll reply with a non-empty error field has arrived,
\* whatever its progress, the search has returned the error outcome with
\* that message, the caller has issued no request since, and on_progress
\* was not called for that reply.
C6_ErrorStopsSearch ==
    \A t \in Callers :
       LET lr == task[t].last_reply IN
       (task[t].stage = "poll" /\ HasError(lr.reply)) =>
          /\ task[t].pc = "done"
          /\ task[t].result = ErrorResult(lr.reply.error)
          /\ Len(RequestsOf(t)) = lr.nsent
          /\ Len(task[t].notified) = lr.nnotified

C6_Witness ==
    \E t \in Callers :
       /\ task[t].stage = "poll"
       /\ HasError(task[t].last_reply.reply)
       /\ task[t].last_reply.reply.progress = 100
       /\ task[t].last_progress = 40
       /\ task[t].polls = 2

\* -------------------------------------------- C7: unlock before the reminder
NotifiedFor(log, search_id) == SelectSeq(log, LAMBDA n : n.search_id = search_id)

\* C7 as stated: once unlock_all has succeeded for a search id before the
\* reminder delay of its entry elapsed, the notifier is never invoked for
\* that search id again.
C7_NeverNotifiedAfterUnlock ==
    [][\A s \in SearchIds :
          s \in unlocked_early =>
             NotifiedFor(notifications', s) = NotifiedFor(notifications, s)]_vars

\* C7, amended: after unlock_all has succeeded for an entry, the notifier is
\* not invoked for its search id in any step that leaves that entry in
\* place, that is, until a later put stores a new result under the id.
C7_NotNotifiedWhileUnlocked ==
    [][\A s \in SearchIds :
          (InResults(s) /\ pending_results[s].unlocked
             /\ pending_results'[s] = pending_results[s]) =>
             NotifiedFor(notifications', s) = NotifiedFor(notifications, s)]_vars

C7_Witness ==
    \E s \in SearchIds, h \in Searches :
       /\ s \in unlocked_early
       /\ InResults(s) /\ pending_results[s].unlocked
       /\ pending_results[s].search = h
       /\ search[h].search_id = s
       /\ timer[h].pc = "done" /\ ~timer[h].cancelled
       /\ clock >= pending_results[s].created_at + REMINDER_DELAY_SECONDS
       /\ NotifiedFor(notifications, s) = <<>>

\* ------------------------------------------------ C8: unlock that fails
\* C8: unlock_all of a search id with no entry or an expired entry answers
\* "results expired" and changes neither the entries nor the timer registry
\* nor any timer task.
C8_FailedUnlockNoSideEffect ==
    [][\A s \in SearchIds :
          (UnlockAll(s) /\ ~CanUnlock(s)) =>
             /\ last_op'.reply = "expired"
             /\ pending_results' = pending_results
             /\ pending_reminders' = pending_reminders
             /\ timer' = timer]_vars

\* ------------------------------------------------ C9: the expiry predicate
\* C9: is_result_expired is true exactly when the id has no entry or the
\* entry is older than 1800 seconds: an entry is live at the age of 29
\* minutes and of exactly 30 minutes, and expired at 31 minutes; the unlock
\* guard follows it.
C9_ExpiryPredicate ==
    \A s \in SearchIds :
       LET age == clock - pending_results[s].created_at IN
       /\ ~InResults(s) => IsResultExpired(s)
       /\ InResults(s) =>
            /\ age >= 0
            /\ age <= 1800 => ~IsResultExpired(s)
            /\ age > 1800 => IsResultExpired(s)
            /\ age = 29 * 60 => ~IsResultExpired(s)
            /\ age = 30 * 60 => ~IsResultExpired(s)
            /\ age = 31 * 60 => IsResultExpired(s)
       /\ CanUnlock(s) <=> (InResults(s) /\ age <= 1800)

C9_Witness ==
    \E s \in SearchIds :
       /\ InResults(s)
       /\ clock - pending_results[s].created_at = 30 * 60
       /\ ~IsResultExpired(s)
       /\ last_op = Op("unlock", s, "link")

\* ------------------------------------------- C10: reads of expired entries
\* C10: unlock_all, the single-link unlock, /debug and the reminder's
\* fire-time check each treat an entry older than the TTL as absent.
C10_ReadsTreatExpiredAsAbsent ==
    [][/\ \A s \in SearchIds :
            (InResults(s) /\ IsResultExpired(s)) =>
               /\ UnlockAll(s) => last_op'.reply = "expired"
               /\ UnlockSingle(s) => last_op'.reply = "expired"
       /\ \A u \in Users :
            LET s == last_search_by_user[u] IN
            (s # NoSearch /\ InResults(s) /\ IsResultExpired(s) /\ Debug(u)) =>
               last_op'.reply = "expired"
       /\ \A h \in Searches :
            LET s == search[h].search_id IN
            (TimerFire(h) /\ InResults(s) /\ IsResultExpired(s)) =>
               notifications' = notifications]_vars

\* ------------------------------------------- C11: one timer per search id
\* a reminder task that has not finished and was not asked to stop
Unfinished(h) ==
    timer[h].pc \in {"created", "sleeping", "sending"} /\ ~timer[h].cancelled

\* C11: in every state at most one reminder task that has not finished
\* exists per search id.
C11_OneTimerPerSearchId ==
    \A s \in SearchIds :
       Cardinality({h \in Searches : search[h].search_id = s /\ Unfinished(h)}) <= 1

\* ------------------------------------------------- C12: fire versus cancel
\* the notifier was invoked by reminder task h
Fired(h) == \E i \in 1..Len(notifications) : notifications[i].timer = h

\* C12: for no reminder task do both the notifier effect (send_message
\* invoked) and the cancellation effect (Task.cancel() accepted) take place.
C12_FireExcludesCancel ==
    \A h \in Searches : ~(Fired(h) /\ timer[h].cancelled)

\* ------------------------------------------- C13: put schedules the reminder
\* the reminder tasks registered or still pending for a search id
TimersOf(s) ==
    {h \in Searches : search[h].search_id = s /\ Unfinished(h)}

\* C13: once the handler that stored it has run to its end, every live entry
\* that is not unlocked and for which no reminder was sent yet has exactly
\* one reminder task, registered under its search id.
C13_PutSchedulesReminder ==
    \A s \in SearchIds :
       (/\ InResults(s)
        /\ search[pending_results[s].search].pc = "done"
        /\ ~IsResultExpired(s)
        /\ ~pending_results[s].unlocked
        /\ NotifiedFor(notifications, s) = <<>>) =>
          /\ pending_reminders[s] # NoTimer
          /\ TimersOf(s) = {pending_reminders[s]}

\* ------------------------------------------------ C14: successful unlock
\* C14: unlock_all of a search id whose entry is present and not expired sets
\* the entry's unlocked flag, leaves its creation time and stored result as
\* they were, asks the registered reminder task to stop (or finds it done),
\* removes it from the registry and answers with the unlocked links.
C14_SuccessfulUnlock ==
    [][\A s \in SearchIds :
          (UnlockAll(s) /\ CanUnlock(s)) =>
             /\ pending_results'[s].unlocked
             /\ pending_results'[s] = [pending_results[s] EXCEPT !.unlocked = TRUE]
             /\ \A o \in SearchIds \ {s} : pending_results'[o] = pending_results[o]
             /\ pending_reminders'[s] = NoTimer
             /\ pending_reminders[s] # NoTimer =>
                   \/ timer'[pending_reminders[s]].cancelled
                   \/ timer[pending_reminders[s]].pc = "done"
             /\ last_op' = Op("unlock_all", s, "unlocked")]_vars

C14_Witness ==
    \E s \in SearchIds, h \in Searches :
       /\ last_op = Op("unlock_all", s, "unlocked")
       /\ pending_results[s].unlocked
       /\ pending_results[s].search = h
       /\ search[h].search_id = s
       /\ pending_reminders[s] = NoTimer
       /\ timer[h].pc = "sleeping" /\ timer[h].cancelled
       /\ clock > pending_results[s].created_at

\* ------------------------------------------------ C15: fire-time re-check
\* C15: when the delay of a reminder task has elapsed, the notifier is
\* invoked if and only if at that moment an entry for its search id exists
\* and is not unlocked; otherwise the task ends with no notification.
C15_FireTimeRecheck ==
    [][\A h \in Searches :
          TimerFire(h) =>
             LET s == search[h].search_id
                 live == InResults(s) /\ ~pending_results[s].unlocked
             IN /\ live => /\ Len(notifications') = Len(notifications) + 1
                           /\ notifications'[Len(notifications')].search_id = s
                           /\ notifications'[Len(notifications')].timer = h
                /\ ~live => /\ notifications' = notifications
                            /\ timer'[h].pc = "done"]_vars

\* one reminder was suppressed at its fire time, another one was sent
C15_Witness ==
    \E h, g \in Searches :
       /\ h # g
       /\ timer[h].pc = "done" /\ ~timer[h].cancelled /\ ~Fired(h)
       /\ pending_results[search[h].search_id].unlocked
       /\ clock >= timer[h].wake /\ timer[h].wake > 0
       /\ Fired(g)

\* ------------------------------------------- C16: when the reminder is sent
\* C16: whenever the notifier is invoked for an entry, the time is that
\* entry's creation time plus REMINDER_DELAY_SECONDS, and the entry has not
\* expired.
C16_ReminderAtCreatedPlusDelay ==
    [][\A h \in Searches :
          (TimerFire(h) /\ notifications' # notifications) =>
             LET s == search[h].search_id IN
             /\ clock = pending_results[s].created_at + REMINDER_DELAY_SECONDS
             /\ ~IsResultExpired(s)]_vars

\* ----------------------------------------------- C17: FIFO admission
\* The gate under contention: three find_face callers; an upload succeeds or
\* fails, a poll reports progress 50 or 100.
QueueReplies ==
    {Http(500, NoId, NoProgress, ""), Http(200, "S1", NoProgress, ""),
     Http(200, NoId, 50, ""), Http(200, NoId, 100, "")}

NextGate ==
    \/ \E t \in Callers, lat \in Latencies : FindFace(t, lat)
    \/ \E t \in Callers, lat \in Latencies : LockGranted(t, lat)
    \/ \E t \in Callers, lat \in Latencies : RateLimitWake(t, lat)
    \/ \E t \in Callers, r \in QueueReplies, lat \in Latencies : Response(t, r, lat)
    \/ \E t \in Callers, lat \in Latencies : PollWake(t, lat)
    \/ AdvanceClock

SpecGate == Init /\ [][NextGate]_vars

\* the caller has been let through the gate
Admitted(t) == task[t].pc \notin {"idle", "lock_wait"}

\* the callers in the order of their first HTTP attempt
UploadOrder ==
    LET first == SelectSeq(sent, LAMBDA q : q.stage = "upload" /\ q.attempt = 0)
    IN [i \in 1..Len(first) |-> first[i].task]

\* C17: callers pass the gate in the order in which they called find_face:
\* a caller is admitted only when every caller that arrived before it has
\* been admitted, and the uploads start in arrival order.
C17_FifoAdmission ==
    /\ \A i, j \in 1..Len(arrivals) :
          (i < j /\ Admitted(arrivals[j])) => Admitted(arrivals[i])
    /\ UploadOrder = SubSeq(arrivals, 1, Len(UploadOrder))
    /\ waiters = SelectSeq(arrivals, LAMBDA t : task[t].pc = "lock_wait")

\* two callers are queued behind the holder, c3 before c2; the holder has
\* returned and release has picked the one to admit
C17_Witness ==
    /\ arrivals = <<"c1", "c3", "c2">>
    /\ task["c1"].pc = "done"
    /\ waiters = <<"c3", "c2">>
    /\ woken = {"c3"}
    /\ ~locked

\* ------------------------------------------- C18: kinds of failure
\* the send of task t made all its attempts
Exhausted(t) == task[t].pc = "done" /\ Len(task[t].outcomes) = MAX_RETRIES

\* C18: a send that exhausts its attempts on 429 replies and a send that
\* exhausts them on timeouts return different values, and so do the
\* operations that issued them.
C18_FailureKindsDistinct ==
    \A a, b \in InfoCallers :
       (/\ Exhausted(a) /\ \A i \in 1..MAX_RETRIES : Is429(task[a].outcomes[i])
        /\ Exhausted(b) /\ \A i \in 1..MAX_RETRIES : IsTimeout(task[b].outcomes[i])) =>
          /\ task[a].returned # task[b].returned
          /\ task[a].result # task[b].result

\* ------------------------------------- C19, C20: failures inside find_face
\* One find_face whose attempts may fail in every way: 429, 500, timeout,
\* another exception; an upload may also succeed with or without an id, and
\* the first poll that succeeds reports progress 100.
FailureReplies ==
    Failures \cup UploadReplies \cup {Http(200, NoId, 100, "")}

NextFailures ==
    \/ \E lat \in Latencies \cup {TIMEOUT} : FindFace("c1", lat)
    \/ \E lat \in Latencies \cup {TIMEOUT} : RateLimitWake("c1", lat)
    \/ \E r \in FailureReplies, lat \in Latencies \cup {TIMEOUT} :
          Response("c1", r, lat)
    \/ \E lat \in Latencies \cup {TIMEOUT} : BackoffWake("c1", lat)
    \/ AdvanceClock

SpecFailures == Init /\ [][NextFailures]_vars

IsRaised(o) == o.kind = "exc"

\* C19: once an attempt of an upload or a poll has raised an exception that
\* is not a timeout, find_face has returned an error outcome (a value, not
\* the exception), the caller has issued no attempt since and has slept in
\* no backoff since.
C19_ExceptionEndsSend ==
    \A t \in Callers :
       LET o == task[t].outcomes
           lr == task[t].last_reply
       IN (\E i \in 1..Len(o) : IsRaised(o[i])) =>
             /\ IsRaised(o[Len(o)])
             /\ task[t].pc = "done"
             /\ task[t].result.kind = "error"
             /\ task[t].result = ExceptionResult(task[t].stage)
             /\ Len(RequestsOf(t)) = lr.nsent
             /\ Len(task[t].waits) = Len(o) - 1
             /\ \A i \in 1..Len(task[t].returned) : task[t].returned[i] # Raised

\* the exception came on the second attempt of a poll, after a 429
C19_Witness ==
    \E t \in Callers :
       /\ task[t].stage = "poll"
       /\ Len(task[t].outcomes) = 2
       /\ Is429(task[t].outcomes[1])
       /\ IsRaised(task[t].outcomes[2])
       /\ task[t].waits = <<30>>

\* ------------------------------------------------ C20: upload without a handle
\* the send of the upload returned no response, a status other than 200, or
\* a 200 body without id_search
NoHandle(response) ==
    \/ response = NoResponse
    \/ response.kind = "http" /\ response.status # 200
    \/ response.kind = "http" /\ response.status = 200 /\ response.id_search = NoId

\* C20: when the upload yields no search handle, find_face returns the
\* upload-failed outcome and the caller issues no poll request.
C20_NoHandleNoPoll ==
    \A t \in Callers :
       (Len(task[t].returned) > 0 /\ NoHandle(task[t].returned[1])) =>
          /\ task[t].pc = "done"
          /\ task[t].result = ErrorResult("Failed to upload image")
          /\ task[t].polls = 0
          /\ \A i \in 1..Len(sent) : sent[i].task = t => sent[i].stage = "upload"

\* the send of the upload used up its attempts and returned None
C20_Witness ==
    \E t \in Callers :
       /\ task[t].pc = "done"
       /\ task[t].returned = <<NoResponse>>
       /\ Len(task[t].outcomes) = MAX_RETRIES
       /\ task[t].result = ErrorResult("Failed to upload image")

\* ============================================== C21: the result and its views
FREE_RESULTS_COUNT == 3
PAID_RESULTS_COUNT == 10

\* the longest of the short item lists a search returns here
MaxItems == 3

\* An item is represented by its score.  A search returns its items in the
\* order the server chose: every short list over two scores, and three
\* lists around the length of the paid view.
Scores == {70, 90}
LongItems(n) == [i \in 1..n |-> 50 + ((i * 7) % 11)]
ItemLists ==
    UNION {[1..n -> Scores] : n \in 0..MaxItems}
       \cup {LongItems(n) : n \in {PAID_RESULTS_COUNT - 1, PAID_RESULTS_COUNT + 2}}

\* the Python slice seq[:n]
Prefix(seq, n) == SubSeq(seq, 1, IF Len(seq) < n THEN Len(seq) ELSE n)

RECURSIVE InsertByScore(_, _)
InsertByScore(x, seq) ==
    IF seq = <<>> THEN <<x>>
    ELSE IF x >= Head(seq) THEN <<x>> \o seq
    ELSE <<Head(seq)>> \o InsertByScore(x, Tail(seq))

RECURSIVE SortByScore(_)
SortByScore(seq) ==
    IF seq = <<>> THEN <<>>
    ELSE InsertByScore(Head(seq), SortByScore(Tail(seq)))

\* mutant: the best scores first
FreeViewByScore(items) == Prefix(SortByScore(items), FREE_RESULTS_COUNT)

\* execute_free_search: faces[:FREE_RESULTS_COUNT]
FreeView(items) == Prefix(items, FREE_RESULTS_COUNT)

\* execute_paid_search: faces[:10]
PaidView(items) == Prefix(items, PAID_RESULTS_COUNT)

\* the unlock_all branch of handle_successful_payment: items[:10]
UnlockAllView(items) == Prefix(items, PAID_RESULTS_COUNT)

\* execute_free_search / execute_paid_search after find_face returned the
\* final poll response: its output.items are sent to the user
ShowResults(kind, items) ==
    /\ task["c1"].pc = "done"
    /\ task["c1"].result = DataResult
    /\ display.kind = "none"
    /\ display' =
          IF items = <<>>
          THEN [kind |-> "no matches", items |-> items, shown |-> <<>>]
          ELSE [kind |-> kind, items |-> items,
                shown |-> IF kind = "free" THEN FreeView(items) ELSE PaidView(items)]
    /\ UNCHANGED <<clock, clientVars, creditVars, pending_results, pending_reminders,
                   last_search_by_user, search, timer, notifications, last_op,
                   unlocked_early>>

\* unlock_all after a free search: the stored items are listed
ShowUnlocked ==
    /\ display.kind = "free"
    /\ display' = [display EXCEPT !.kind = "unlock_all",
                                  !.shown = UnlockAllView(display.items)]
    /\ UNCHANGED <<clock, clientVars, creditVars, pending_results, pending_reminders,
                   last_search_by_user, search, timer, notifications, last_op,
                   unlocked_early>>

\* One search and what the user is shown of it.
ViewReplies ==
    {Http(500, NoId, NoProgress, ""), Http(200, "S1", NoProgress, ""),
     Http(200, NoId, NoProgress, ""), Http(200, NoId, 50, ""),
     Http(200, NoId, 100, ""), Http(200, NoId, 100, "quota exceeded")}

NextViews ==
    \/ \E lat \in Latencies : FindFace("c1", lat)
    \/ \E lat \in Latencies : RateLimitWake("c1", lat)
    \/ \E r \in ViewReplies, lat \in Latencies : Response("c1", r, lat)
    \/ \E lat \in Latencies : PollWake("c1", lat)
    \/ \E kind \in {"free", "paid"}, items \in ItemLists : ShowResults(kind, items)
    \/ ShowUnlocked
    \/ AdvanceClock

SpecViews == Init /\ [][NextViews]_vars

\* the reply with which a search is complete
Completes(r) ==
    r.kind = "http" /\ r.status = 200 /\ r.error = "" /\ ProgressOf(r) >= 100

\* shown is the first n items, in their order
IsPrefix(shown, items, n) ==
    /\ Len(shown) = (IF Len(items) < n THEN Len(items) ELSE n)
    /\ \A i \in 1..Len(shown) : shown[i] = items[i]

NextReminder ==
    \/ \E kind \in {"free", "paid"} : StoreResult(1, kind, "u1", "S1")
    \/ ScheduleReminder(1)
    \/ TimerStart(1)
    \/ TimerFire(1)
    \/ TimerSent(1)
    \/ TimerSendFailed(1)
    \/ TimerCancelled(1)
    \/ \E search_id \in SearchIds : UnlockAll(search_id)
    \/ \E search_id \in SearchIds : UnlockSingle(search_id)
    \/ Debug("u1")
    \/ Advance

SpecReminder == Init /\ [][NextReminder]_vars

\* C22: when send_message raises in a reminder task, the task still ends
\* normally, no entry of pending_results changes, and the registry holds
\* nothing for the task's search id afterwards.
C22_NotifierFailureSwallowed ==
    [][\A h \in Searches :
          (timer[h].pc = "sending" /\ timer'[h].send_failed) =>
             /\ timer'[h].pc = "done"
             /\ pending_results' = pending_results
             /\ pending_reminders'[search[h].search_id] = NoTimer
             /\ notifications' = notifications]_vars

C22_Witness ==
    \E h \in Searches :
       /\ timer[h].send_failed
       /\ timer[h].pc = "done"
       /\ Fired(h)
       /\ pending_reminders[search[h].search_id] = NoTimer
       /\ InResults(search[h].search_id)

\* ------------------------------------------- C23: lookups of absent ids
\* "search_id in pending_reminders"
InReminders(search_id) == pending_reminders[search_id] # NoTimer

\* A subscript d[k] or a "del d[k]" of the code: when it is executed, and
\* whether k is in d then.  It raises KeyError when executed with k absent.
Read(when, present) == [when |-> when, present |-> present]
Raises(reads) == \E a \in reads : a.when /\ ~a.present

\* is_result_expired: pending_results[search_id] after the membership test
IsResultExpiredReads(search_id) ==
    {Read(InResults(search_id), InResults(search_id))}

\* mutant: the reminder is cancelled without the membership test
UnlockAllReadsUnguarded(search_id) ==
    {Read(TRUE, InReminders(search_id)),
     Read(InResults(search_id) /\ ~IsResultExpired(search_id), InResults(search_id))}
       \cup (IF InResults(search_id) THEN IsResultExpiredReads(search_id) ELSE {})

\* unlock_all: pending_reminders[search_id].cancel() and del under their
\* membership test; pending_results[search_id] under the validity test,
\* whose second operand is evaluated only when the first holds
UnlockAllReads(search_id) ==
    {Read(InReminders(search_id), InReminders(search_id)),
     Read(InResults(search_id) /\ ~IsResultExpired(search_id), InResults(search_id))}
       \cup (IF InResults(search_id) THEN IsResultExpiredReads(search_id) ELSE {})

\* the single-link unlock: pending_results[search_id] under the validity test
UnlockSingleReads(search_id) ==
    {Read(InResults(search_id) /\ ~IsResultExpired(search_id), InResults(search_id))}
       \cup (IF InResults(search_id) THEN IsResultExpiredReads(search_id) ELSE {})

\* cmd_debug: last_search_by_user[user_id] and pending_results[search_id],
\* each after its membership test
DebugReads(user) ==
    LET known == last_search_by_user[user] # NoSearch IN
    {Read(known, known)}
       \cup (IF known
             THEN {Read(InResults(last_search_by_user[user]),
                        InResults(last_search_by_user[user]))}
             ELSE {})

\* schedule_expiry_reminder at its fire time and in its finally block
FireReads(search_id) ==
    {Read(InResults(search_id), InResults(search_id)),
     Read(InReminders(search_id), InReminders(search_id))}

\* C23: in every state, for every search id and user, with or without an
\* entry or a timer, none of is_result_expired, unlock_all, the single-link
\* unlock, /debug and the reminder's check and cleanup raises KeyError.
C23_NoLookupRaises ==
    /\ \A s \in SearchIds :
          /\ ~Raises(IsResultExpiredReads(s))
          /\ ~Raises(UnlockAllReads(s))
          /\ ~Raises(UnlockSingleReads(s))
          /\ ~Raises(FireReads(s))
    /\ \A u \in Users : ~Raises(DebugReads(u))

\* unlock_all of an id that has neither entry nor timer was answered, while
\* another id has an expired entry
C23_Witness ==
    /\ last_op = Op("unlock_all", "S2", "expired")
    /\ ~InResults("S2") /\ ~InReminders("S2")
    /\ InResults("S1") /\ IsResultExpired("S1")
    /\ last_search_by_user["u2"] = NoSearch

\* ------------------------------------------- C24: statuses other than 429
\* C24: once an attempt of a send has been answered with a status other
\* than 429 (200, 404, 500), the send has returned that response as it is,
\* on that attempt: no attempt and no backoff sleep followed it.
C24_Non429Returned ==
    \A t \in InfoCallers :
       LET o == task[t].outcomes
           lr == task[t].last_reply
       IN (\E i \in 1..Len(o) : o[i].kind = "http" /\ o[i].status # 429) =>
             /\ o[Len(o)].kind = "http" /\ o[Len(o)].status # 429
             /\ \A i \in 1..(Len(o) - 1) : Is429(o[i]) \/ IsTimeout(o[i])
             /\ task[t].pc = "done"
             /\ task[t].returned = <<lr.reply>>
             /\ lr.reply.status = o[Len(o)].status
             /\ Len(RequestsOf(t)) = lr.nsent
             /\ Len(RequestsOf(t)) = Len(o)
             /\ Len(task[t].waits) = Len(o) - 1

\* a 404 on the first attempt, and a 500 on the third after a 429 and a
\* timeout
C24_Witness ==
    \E a, b \in InfoCallers :
       /\ task[a].returned = <<Http(404, NoId, NoProgress, "")>>
       /\ Len(task[a].outcomes) = 1
       /\ task[b].returned = <<Http(500, NoId, NoProgress, "")>>
       /\ Len(task[b].outcomes) = 3
       /\ Is429(task[b].outcomes[1])
       /\ IsTimeout(task[b].outcomes[2])

\* ------------------------------------------- C25: notified values increase
\* C25: whatever the order of the progress values of the poll replies, the
\* values passed to on_progress are strictly increasing.
C25_NotifiedIncreasing ==
    \A t \in Callers :
       \A i, j \in 1..Len(task[t].notified) :
          i < j => task[t].notified[i] < task[t].notified[j]

\* the replies went down and up again: 40, then 20, then 100
C25_Witness ==
    \E t \in Callers :
       /\ task[t].seen = <<40, 20, 100>>
       /\ task[t].notified = <<40, 100>>

\* ------------------------------------------- C26: which values are notified
\* C26: every value passed to on_progress is one of 20, 40, 60, 80.
C26_NotifiedAreThresholds ==
    \A t \in Callers :
       \A i \in 1..Len(task[t].notified) : task[t].notified[i] \in Thresholds

\* ------------------------------------------- C27: one reminder per search id
\* C27: the notifier is invoked at most once per search id.
C27_AtMostOneReminderPerId ==
    \A s \in SearchIds : Len(NotifiedFor(notifications, s)) <= 1

\* ------------------------------------------- C28: self-removal of a timer
\* the reminder task h ends in this step
Ends(h) == timer[h].pc \in {"sleeping", "sending"} /\ timer'[h].pc = "done"

\* C28: when a reminder task ends, the registry does not hold it afterwards
\* and every registry slot that held another task is unchanged.
C28_SelfRemovalOnly ==
    [][\A h \in Searches :
          Ends(h) =>
             \A s \in SearchIds :
                /\ pending_reminders'[s] # h
                /\ pending_reminders[s] # h =>
                      pending_reminders'[s] = pending_reminders[s]]_vars

\* ------------------------------------------- C29: liveness of the gate
\* Two find_face callers; every outcome occurs: an upload fails, a poll
\* reports progress, completes, reports an error or fails, an attempt raises.
LiveReplies ==
    {Http(500, NoId, NoProgress, ""), Http(200, "S1", NoProgress, ""),
     Http(200, NoId, 50, ""), Http(200, NoId, 100, ""),
     Http(200, NoId, 100, "quota exceeded"), Raised}

NextLive ==
    \/ \E t \in Pair, lat \in Latencies : FindFace(t, lat)
    \/ \E t \in Pair, lat \in Latencies : LockGranted(t, lat)
    \/ \E t \in Pair, lat \in Latencies : RateLimitWake(t, lat)
    \/ \E t \in Pair, r \in LiveReplies, lat \in Latencies : Response(t, r, lat)
    \/ \E t \in Pair, lat \in Latencies : PollWake(t, lat)
    \/ AdvanceClock

\* The event loop runs every coroutine that can run, time passes, and the
\* server answers every request; a search is answered with progress >= 100,
\* an error or a failure on poll MaxPolls at the latest.
FairLive ==
    /\ WF_vars(AdvanceClock)
    /\ \A t \in Pair :
          /\ WF_vars(\E lat \in Latencies : LockGranted(t, lat))
          /\ WF_vars(\E lat \in Latencies : RateLimitWake(t, lat))
          /\ WF_vars(\E r \in LiveReplies, lat \in Latencies : Response(t, r, lat))
          /\ WF_vars(\E lat \in Latencies : PollWake(t, lat))

SpecLive == Init /\ [][NextLive]_vars /\ FairLive

\* C29: the lock is held only while a caller is inside the gate, and every
\* caller that called find_face, waiting for the gate or not, eventually
\* returns.
C29_GateLiveness ==
    /\ [](locked => \E t \in Pair : InGate(t))
    /\ \A t \in Pair : (task[t].pc = "lock_wait") ~> InGate(t)
    /\ \A t \in Pair : (task[t].pc # "idle") ~> (task[t].pc = "done")

\* the holder's search ended with an exception; the gate is free and the
\* waiting caller has been woken
C29_Witness ==
    /\ task["c1"].pc = "done"
    /\ task["c1"].result = ErrorResult("Network error")
    /\ task["c2"].pc = "lock_wait"
    /\ woken = {"c2"}
    /\ ~locked

\* ------------------------------------------- C30: a failure is terminal
\* the attempts of task t for one stage
AttemptsOf(t, stage) == SelectSeq(sent, LAMBDA q : q.task = t /\ q.stage = stage)

\* the poll send returned None or a response whose status is not 200
PollFailed(response) ==
    response = NoResponse \/ (response.kind = "http" /\ response.status # 200)

\* C30: when the send of a poll returns None or a status other than 200,
\* find_face returns the failed outcome and issues no further request; one
\* find_face makes at most MAX_RETRIES upload attempts and, for its first
\* poll, at most MAX_RETRIES poll attempts.
C30_FailureIsTerminal ==
    \A t \in Callers :
       LET ret == task[t].returned IN
       /\ Len(AttemptsOf(t, "upload")) <= MAX_RETRIES
       /\ task[t].polls <= 1 => Len(AttemptsOf(t, "poll")) <= MAX_RETRIES
       /\ (Len(ret) >= 2 /\ PollFailed(ret[Len(ret)])) =>
             /\ task[t].pc = "done"
             /\ task[t].result = NoneResult
             /\ Len(RequestsOf(t)) = task[t].last_reply.nsent

\* the poll used up its attempts on 429 and timeouts
C30_Witness ==
    \E t \in Callers :
       /\ task[t].pc = "done"
       /\ task[t].stage = "poll"
       /\ Len(task[t].returned) = 2
       /\ task[t].returned[2] = NoResponse
       /\ Len(AttemptsOf(t, "poll")) = MAX_RETRIES
       /\ \E i \in 1..MAX_RETRIES : IsTimeout(task[t].outcomes[i])

\* ------------------------------------------------ C31: one logical client
\* the callers whose HTTP request has been sent and not yet answered
InFlight == {t \in Tasks : task[t].pc = "inflight"}

\* C31: at any moment at most one HTTP request of the process is in flight;
\* an info request never overlaps the upload or poll request of a search
\* that holds the gate.
C31_OneRequestInFlight ==
    /\ Cardinality(InFlight) <= 1
    /\ \A g \in InfoCallers, t \in Callers :
          ~(g \in InFlight /\ t \in InFlight /\ InGate(t))

\* ------------------------------------------------------ C32: duplicate put
\* search handler h stores its result under search_id in this step
Puts(h, search_id) ==
    /\ search[h].pc = "idle"
    /\ search'[h].pc # "idle"
    /\ search'[h].search_id = search_id

\* C32: the store holds one entry per search id; a put under an id that is
\* already stored replaces the entry by the new result with the new
\* creation time and unlocked = FALSE, whatever the old entry was, and
\* afterwards no step but a further put changes whose result and which
\* creation time a read returns, and only a successful unlock-all sets
\* unlocked.
C32_LastWriteWins ==
    [][\A s \in SearchIds :
          /\ \A h \in Searches :
                (Puts(h, s) /\ InResults(s)) =>
                   pending_results'[s] =
                      [created_at |-> clock, unlocked |-> FALSE,
                       owner |-> search'[h].user, search |-> h]
          /\ (InResults(s) /\ \A h \in Searches : ~Puts(h, s)) =>
                /\ pending_results'[s].created_at = pending_results[s].created_at
                /\ pending_results'[s].owner = pending_results[s].owner
                /\ pending_results'[s].search = pending_results[s].search
                /\ pending_results'[s].unlocked # pending_results[s].unlocked =>
                      /\ pending_results'[s].unlocked
                      /\ last_op' = Op("unlock_all", s, "unlocked")]_vars

\* both searches stored under S1; the first entry was unlocked, and a read
\* now returns the second result, later created and not unlocked
C32_Witness ==
    /\ search[1].search_id = "S1" /\ search[1].pc = "done"
    /\ search[2].search_id = "S1" /\ search[2].pc = "done"
    /\ "S1" \in unlocked_early
    /\ pending_results["S1"].created_at > StartTime
    /\ ~pending_results["S1"].unlocked
    /\ \E h \in Searches :
          pending_results["S1"] =
             [created_at |-> clock, unlocked |-> FALSE,
              owner |-> search[h].user, search |-> h]

\* ------------------------------------------------- C33: reminder addressee
\* C33: whenever the reminder notifier is invoked, it is addressed to the
\* user whose search produced the entry stored under that search id at that
\* moment.
C33_ReminderToEntryOwner ==
    \A i \in 1..Len(notifications) :
       notifications[i].user = notifications[i].owner

\* ---------------------------------------------------- C34: partial visibility
\* the replies of the unlock branches that print face.get("url")
UnlockUrlReplies == {"unlocked", "link"}
\* the reply of /debug that prints face.get("url") of every item
DebugUrlReplies == {"listing"}

\* the entry under search_id was stored by a free search
FreeEntry(search_id) ==
    /\ InResults(search_id)
    /\ search[pending_results[search_id].search].kind = "free"

\* C34: for an entry created by a free search and not unlocked, a command
\* sends source URLs to the user only if it is a successful unlock
\* (unlock-all or single-link) on the non-expired entry; no other command,
\* /debug included, sends them.
C34_UrlsOnlyByUnlock ==
    [][\A s \in SearchIds :
          (/\ last_op' # last_op
           /\ last_op'.search_id = s
           /\ last_op'.reply \in UnlockUrlReplies \cup DebugUrlReplies
           /\ FreeEntry(s)
           /\ ~pending_results[s].unlocked) =>
             /\ last_op'.op \in {"unlock_all", "unlock"}
             /\ CanUnlock(s)]_vars

\* ------------------------------------------------- C35: entries never removed
\* the search ids that have an entry in pending_results
Stored == {s \in SearchIds : InResults(s)}

\* C35: no operation removes an entry from pending_results: over every step
\* (put, unlock, expiry check, reminder firing, /debug, the passing of time)
\* the set of stored search ids only grows.
C35_EntriesNeverRemoved ==
    [][Stored \subseteq Stored']_vars

\* an expired entry is still stored after its reminder fired and an unlock
\* was refused as expired
C35_Witness ==
    /\ "S1" \in Stored
    /\ IsResultExpired("S1")
    /\ last_op = Op("unlock", "S1", "expired")
    /\ \E i \in 1..Len(notifications) : notifications[i].search_id = "S1"

\* ------------------------------------------------- credits: the handlers
\* handle_photo: get_or_create_user (a new user gets one free search)
GetOrCreateUser(p, u, last_free_grant) ==
    /\ photo[p].pc = "idle"
    /\ photo' = [photo EXCEPT ![p].pc = "grant", ![p].user = u]
    /\ IF HasRow(u)
       THEN UNCHANGED <<db_users, held>>
       ELSE /\ db_users' = [db_users EXCEPT ![u] = NewUser(last_free_grant)]
            /\ held' = [held EXCEPT ![u] = 1]
    /\ UNCHANGED <<clock, clientVars, storeVars, payment, pending_photos, invoices>>

\* check_and_grant_daily_free_search: the select and the test of
\* "24 hours passed since last grant" and free_searches == 0
GrantSelect(p) ==
    LET row == db_users[photo[p].user] IN
    /\ photo[p].pc = "grant"
    /\ photo' = [photo EXCEPT
          ![p].row = row,
          ![p].pc = IF row.last_free_grant = "old" /\ row.free_searches = 0
                    THEN "grant_update" ELSE "credits"]
    /\ UNCHANGED <<clock, clientVars, storeVars, db_users, payment, pending_photos,
                   invoices, held>>

\* check_and_grant_daily_free_search: the update to free_searches = 1
GrantUpdate(p) ==
    LET u == photo[p].user IN
    /\ photo[p].pc = "grant_update"
    /\ db_users' = [db_users EXCEPT ![u].free_searches = 1,
                                    ![u].last_free_grant = "now"]
    /\ held' = [held EXCEPT ![u] =
          IF db_users[u].free_searches < 1 THEN @ + 1 - db_users[u].free_searches ELSE @]
    /\ photo' = [photo EXCEPT ![p].pc = "credits"]
    /\ UNCHANGED <<clock, clientVars, storeVars, payment, pending_photos, invoices>>

\* handle_photo: credits = await db.get_user_credits(...)
GetUserCredits(p) ==
    LET row == db_users[photo[p].user] IN
    /\ photo[p].pc = "credits"
    /\ photo' = [photo EXCEPT ![p].free_searches = row.free_searches,
                              ![p].paid_searches = row.paid_searches,
                              ![p].pc = "download"]
    /\ UNCHANGED <<clock, clientVars, storeVars, db_users, payment, pending_photos,
                   invoices, held>>

\* handle_photo, after the download: "if free_searches > 0" starts the free
\* search, else the photo is kept and a "paid_search" invoice is sent
Branch(p) ==
    LET u == photo[p].user IN
    /\ photo[p].pc = "download"
    /\ IF photo[p].free_searches > 0
       THEN /\ photo' = [photo EXCEPT ![p].pc = "searching"]
            /\ UNCHANGED <<pending_photos, invoices>>
       ELSE /\ pending_photos' = [pending_photos EXCEPT ![u] = TRUE]
            /\ invoices' = [invoices EXCEPT ![u] = @ + 1]
            /\ photo' = [photo EXCEPT ![p].pc = "done", ![p].invoiced = TRUE]
    /\ UNCHANGED <<clock, clientVars, storeVars, db_users, payment, held>>

\* what find_face hands to execute_free_search
SearchOutcomes == {"none", "error", "matches"}

\* execute_free_search: find_face returned; None and an error end the
\* handler, a result goes on to use_search
FreeSearchReturns(p, outcome) ==
    /\ photo[p].pc = "searching"
    /\ photo' = [photo EXCEPT
          ![p].result = outcome,
          ![p].pc = IF outcome = "matches" THEN "use_select" ELSE "done"]
    /\ UNCHANGED <<clock, clientVars, storeVars, db_users, payment, pending_photos,
                   invoices, held>>

\* use_search: the select
UseSelect(p) ==
    LET row == db_users[photo[p].user] IN
    /\ photo[p].pc = "use_select"
    /\ photo' = [photo EXCEPT
          ![p].row = row,
          ![p].pc = IF row.free_searches > 0 \/ row.paid_searches > 0
                    THEN "use_update" ELSE "done"]
    /\ UNCHANGED <<clock, clientVars, storeVars, db_users, payment, pending_photos,
                   invoices, held>>

\* use_search: the update, free searches first, then paid searches
UseUpdate(p) ==
    LET u == photo[p].user
        row == photo[p].row IN
    /\ photo[p].pc = "use_update"
    /\ IF row.free_searches > 0
       THEN /\ db_users' = [db_users EXCEPT ![u].free_searches = row.free_searches - 1]
            /\ photo' = [photo EXCEPT ![p].pc = "done", ![p].used = "free"]
       ELSE /\ db_users' = [db_users EXCEPT ![u].paid_searches = row.paid_searches - 1]
            /\ photo' = [photo EXCEPT ![p].pc = "done", ![p].used = "paid"]
    /\ UNCHANGED <<clock, clientVars, storeVars, payment, pending_photos, invoices, held>>

\* handle_successful_payment, payload buy_1_search or buy_5_searches:
\* the select of add_paid_searches
BuySelect(u, amount) ==
    /\ payment.pc = "idle"
    /\ payment.count < MaxPayments
    /\ HasRow(u)
    /\ payment' = [payment EXCEPT !.pc = "add_update", !.user = u, !.amount = amount,
                                  !.current = db_users[u].paid_searches]
    /\ UNCHANGED <<clock, clientVars, storeVars, db_users, photo, pending_photos,
                   invoices, held>>

\* add_paid_searches: the update to current + amount
BuyUpdate ==
    /\ payment.pc = "add_update"
    /\ db_users' = [db_users EXCEPT
          ![payment.user].paid_searches = payment.current + payment.amount]
    /\ payment' = [payment EXCEPT !.pc = "idle", !.count = @ + 1]
    /\ UNCHANGED <<clock, clientVars, storeVars, photo, pending_photos, invoices, held>>

\* handle_successful_payment, payload paid_search: the stored photo is
\* popped and searched, or "photo not found" is answered
PaySearch(u) ==
    /\ invoices[u] > 0
    /\ invoices' = [invoices EXCEPT ![u] = @ - 1]
    /\ pending_photos' = [pending_photos EXCEPT ![u] = FALSE]
    /\ UNCHANGED <<clock, clientVars, storeVars, db_users, photo, payment, held>>

\* more than 24 hours pass: every grant time becomes old
DayPasses ==
    /\ \E u \in Users : db_users[u].last_free_grant = "now"
    /\ db_users' = [u \in Users |->
          IF db_users[u].last_free_grant = "now"
          THEN [db_users[u] EXCEPT !.last_free_grant = "old"]
          ELSE db_users[u]]
    /\ UNCHANGED <<clock, clientVars, storeVars, photo, payment, pending_photos,
                   invoices, held>>

NextCredits ==
    \/ \E p \in Photos :
          \E u \in UsersOf(p), d \in GrantDefaults : GetOrCreateUser(p, u, d)
    \/ \E p \in Photos : GrantSelect(p)
    \/ \E p \in Photos : GrantUpdate(p)
    \/ \E p \in Photos : GetUserCredits(p)
    \/ \E p \in Photos : Branch(p)
    \/ \E p \in Photos, outcome \in SearchOutcomes : FreeSearchReturns(p, outcome)
    \/ \E p \in Photos : UseSelect(p)
    \/ \E p \in Photos : UseUpdate(p)
    \/ \E u \in Users, amount \in PackSizes : BuySelect(u, amount)
    \/ BuyUpdate
    \/ \E u \in Users : PaySearch(u)
    \/ DayPasses

SpecCredits == Init /\ [][NextCredits]_vars

\* ------------------------------------------- C36: free-credit accounting
\* the free searches of user u that ran to a successful result
FreeDone(u) ==
    Cardinality({p \in Photos : photo[p].user = u /\ photo[p].result = "matches"})

\* C36: the number of free searches that ran to a successful result for a
\* user never exceeds the free credits that user has been granted, also when
\* the user sends several photos while an earlier search is in progress.
C36_FreeSearchesWithinCredits ==
    \A u \in Users : FreeDone(u) <= held[u]

\* ------------------------------------------- C37: purchased credits usable
\* C37: a photo whose handler found paid_searches > 0 and free_searches = 0
\* starts a search that consumes one paid credit, and no new invoice is
\* issued for it.
C37_PaidCreditStartsSearch ==
    \A p \in Photos :
       (/\ photo[p].pc = "done"
        /\ photo[p].free_searches = 0
        /\ photo[p].paid_searches > 0) =>
          /\ ~photo[p].invoiced
          /\ photo[p].result # "unset"
          /\ photo[p].result = "matches" => photo[p].used = "paid"

====
